---- MODULE Spec2Model ----
(***************************************************************************)
(* Model of src/src/routes/index.tsx: the medal-standings page.            *)
(*                                                                         *)
(* State: the three weight signals and the population signal, the query    *)
(* parameters of the address bar, the loader's country array (which the    *)
(* render sorts in place) and the rendered rows.                           *)
(*                                                                         *)
(* Numbers.  The score of getIndex is a double.  It is modelled exactly:   *)
(* a finite score is the rational (p + e * 10^-11) / d, held as the record *)
(* [p, e, d], and NaN is a value of its own.  Within the bounds of this    *)
(* model (medal counts up to 2, populations up to 3) two scores that       *)
(* differ as rationals differ by far more than a double's rounding error,  *)
(* so the order of the doubles is the order of the rationals.              *)
(***************************************************************************)
EXTENDS Integers, Sequences, FiniteSets, TLC

(* ------------------------------------------------------------------ *)
(* Bounds of the model.                                               *)
(* ------------------------------------------------------------------ *)

\* The sliders go from 0 to 10 (min={0} max={10}); the model moves them
\* over 0..MaxWeight.
MaxWeight == 3

\* Longest country list a feed of the model holds.
MaxCountries == 2

(* ------------------------------------------------------------------ *)
(* Strings and numbers.                                               *)
(* ------------------------------------------------------------------ *)

Digits == <<"0", "1", "2", "3", "4", "5", "6", "7", "8", "9">>

\* Number-to-string conversion of a non-negative integer (the value of a
\* range input, a template literal, toFixed(0) of an integer).
RECURSIVE DecimalString(_)
DecimalString(n) ==
  IF n < 10 THEN Digits[n + 1]
  ELSE DecimalString(n \div 10) \o Digits[(n % 10) + 1]

\* The values a slider can hold.
SliderValues == {DecimalString(n) : n \in 0..MaxWeight}

\* A spelling with a leading zero, as a hand-written link can carry.
LeadingZero == "03"

\* The strings a weight parameter of the initial URL can hold.
HydrateStrings == SliderValues \cup {LeadingZero}

\* parseInt on the strings of the model: the decimal value of the leading
\* digits ("03" parses to 3).
ParsedValue ==
  [s \in HydrateStrings |->
     IF s = LeadingZero THEN 3
     ELSE CHOOSE n \in 0..MaxWeight : DecimalString(n) = s]

parseInt(s) == ParsedValue[s]

defaultGoldWeight == "3"
defaultSilverWeight == "2"
defaultBronzeWeight == "1"

(* ------------------------------------------------------------------ *)
(* The feed and the population table.                                 *)
(* ------------------------------------------------------------------ *)

Team(id, short, g, s, b) ==
  [n_NOCID |-> id, c_NOCShort |-> short, n_Gold |-> g, n_Silver |-> s, n_Bronze |-> b]

\* The national entities the feeds of the model are drawn from.
Teams ==
  { Team(1, "AAA", 1, 0, 0),
    Team(2, "BBB", 2, 0, 0),
    Team(3, "SSS", 0, 1, 0),
    Team(4, "DDD", 0, 0, 1),
    Team(5, "ZZZ", 0, 1, 1) }

\* ~/data/population: short code to population (positive).  "ZZZ", a team
\* that is no country, has no entry.
population == [c \in {"AAA", "BBB", "SSS", "DDD"} |->
                 CASE c = "AAA" -> 1 [] c = "BBB" -> 2 [] c = "SSS" -> 3 [] c = "DDD" -> 3]

RECURSIVE SeqsOver(_, _)
\* The sequences of at most n distinct elements of S.
SeqsOver(S, n) ==
  IF n = 0 THEN {<<>>}
  ELSE {<<>>} \cup UNION { { <<x>> \o t : t \in SeqsOver(S \ {x}, n - 1) } : x \in S }

\* What the loader can return: MedalTableNOC of a validated response.
Feeds == SeqsOver(Teams, MaxCountries)

(* ------------------------------------------------------------------ *)
(* Scores.                                                            *)
(* ------------------------------------------------------------------ *)

\* The tie-break terms 10e-6, 10e-9 and 10e-12 of getIndex, in units of 10^-11.
goldEpsilon == 1000000
silverEpsilon == 1000
bronzeEpsilon == 1

NaN == [k |-> "NaN", p |-> 0, e |-> 0, d |-> 1]

\* The finite number (p + e * 10^-11) / d.
Num(p, e, d) == [k |-> "num", p |-> p, e |-> e, d |-> d]

Infinity == [k |-> "Infinity", p |-> 0, e |-> 0, d |-> 1]

isNaN(x) == x.k = "NaN"

\* team.n_Gold * parseInt(goldWeight) + ... : the integer points.
weightedTotal(team, goldWeight_, silverWeight_, bronzeWeight_) ==
  team.n_Gold * parseInt(goldWeight_)
  + team.n_Silver * parseInt(silverWeight_)
  + team.n_Bronze * parseInt(bronzeWeight_)

\* getIndex without its tie-break terms: the score is the integer points.
getIndexNoEpsilon(team, goldWeight_, silverWeight_, bronzeWeight_, divideByPopulation_) ==
  LET p == weightedTotal(team, goldWeight_, silverWeight_, bronzeWeight_)
  IN  IF divideByPopulation_
      THEN IF team.c_NOCShort \in DOMAIN population
           THEN Num(p, 0, population[team.c_NOCShort])
           ELSE NaN
      ELSE Num(p, 0, 1)

\* getIndex with the tie-break terms of gold and bronze exchanged.
getIndexSwappedEpsilons(team, goldWeight_, silverWeight_, bronzeWeight_, divideByPopulation_) ==
  LET p == weightedTotal(team, goldWeight_, silverWeight_, bronzeWeight_)
      e == team.n_Gold * bronzeEpsilon
           + team.n_Silver * silverEpsilon
           + team.n_Bronze * goldEpsilon
  IN  IF divideByPopulation_
      THEN IF team.c_NOCShort \in DOMAIN population
           THEN Num(p, e, population[team.c_NOCShort])
           ELSE NaN
      ELSE Num(p, e, 1)

getIndex(team, goldWeight_, silverWeight_, bronzeWeight_, divideByPopulation_) ==
  LET p == weightedTotal(team, goldWeight_, silverWeight_, bronzeWeight_)
      e == team.n_Gold * goldEpsilon
           + team.n_Silver * silverEpsilon
           + team.n_Bronze * bronzeEpsilon
  IN  IF divideByPopulation_
      THEN IF team.c_NOCShort \in DOMAIN population
           THEN Num(p, e, population[team.c_NOCShort])
           ELSE NaN    \* a number divided by undefined
      ELSE Num(p, e, 1)

\* The sign of x - y for finite x and y (e * d stays below 10^11, so the
\* comparison of the cross products is lexicographic).
Sign(x, y) ==
  LET xp == x.p * y.d
      yp == y.p * x.d
      xe == x.e * y.d
      ye == y.e * x.d
  IN  IF xp > yp THEN 1
      ELSE IF xp < yp THEN -1
      ELSE IF xe > ye THEN 1
      ELSE IF xe < ye THEN -1
      ELSE 0

\* The comparator of the render, (a, b) => getIndex(b, ...) - getIndex(a, ...),
\* as sort reads it: a NaN result counts as +0.
compareFn(a, b, gw, sw, bw, div) ==
  LET ia == getIndex(a, gw, sw, bw, div)
      ib == getIndex(b, gw, sw, bw, div)
  IN  IF isNaN(ia) \/ isNaN(ib) THEN 0 ELSE Sign(ib, ia)

(* ------------------------------------------------------------------ *)
(* Array.prototype.sort.                                              *)
(* ------------------------------------------------------------------ *)

Range(s) == {s[i] : i \in 1..Len(s)}

\* The comparator is a consistent comparator on the elements of list: the
\* relation "compares as 0" is transitive.  It is the one requirement this
\* comparator can miss (its finite results are the signs of a difference): a
\* NaN score compares as 0 with every score, so it is met unless a NaN score
\* stands beside two different finite scores.
Consistent(list, gw, sw, bw, div) ==
  LET N == 1..Len(list)
      nan(i) == isNaN(getIndex(list[i], gw, sw, bw, div))
  IN  (\E z \in N : nan(z)) =>
        \A i \in N, j \in N :
          (~nan(i) /\ ~nan(j)) => compareFn(list[i], list[j], gw, sw, bw, div) = 0

\* An insertion that writes x over the element it should have moved up.
InsertOverwriting(s, x, gw, sw, bw, div) ==
  IF s = <<>> THEN <<x>>
  ELSE IF compareFn(s[Len(s)], x, gw, sw, bw, div) > 0
       THEN Append(SubSeq(s, 1, Len(s) - 1), x)
       ELSE Append(s, x)

RECURSIVE Insert(_, _, _, _, _, _)
\* x put into the sorted sequence s, behind every element it does not precede.
Insert(s, x, gw, sw, bw, div) ==
  IF s = <<>> THEN <<x>>
  ELSE IF compareFn(s[Len(s)], x, gw, sw, bw, div) > 0
       THEN Append(Insert(SubSeq(s, 1, Len(s) - 1), x, gw, sw, bw, div), s[Len(s)])
       ELSE Append(s, x)

RECURSIVE StableSort(_, _, _, _, _)
\* The stable sort of list under the comparator.
StableSort(list, gw, sw, bw, div) ==
  IF list = <<>> THEN <<>>
  ELSE Insert(StableSort(SubSeq(list, 1, Len(list) - 1), gw, sw, bw, div),
              list[Len(list)], gw, sw, bw, div)

\* Every reordering of list.
Reorderings(list) ==
  { [i \in 1..Len(list) |-> list[f[i]]] : f \in Permutations(1..Len(list)) }

\* The orders list.sort(comparator) can leave the array in: the stable order
\* when the comparator is consistent, an implementation-defined order when
\* it is not.
sort(list, gw, sw, bw, div) ==
  IF Consistent(list, gw, sw, bw, div)
  THEN {StableSort(list, gw, sw, bw, div)}
  ELSE Reorderings(list)

(* ------------------------------------------------------------------ *)
(* Display.                                                           *)
(* ------------------------------------------------------------------ *)

\* population[team.c_NOCShort] / weightedTotal, the argument of formatBigNumber.
ratio(team, gw, sw, bw) ==
  LET t == weightedTotal(team, gw, sw, bw)
  IN  IF team.c_NOCShort \notin DOMAIN population THEN NaN   \* undefined / t
      ELSE IF t = 0
           THEN IF population[team.c_NOCShort] = 0 THEN NaN ELSE Infinity
           ELSE Num(population[team.c_NOCShort], 0, t)

\* num < limit on doubles.
Below(num, limit) == num.k = "num" /\ (num.p \div num.d) < limit

\* (num / unit).toFixed(0)
toFixed0(num, unit) ==
  IF num.k = "num"
  THEN DecimalString((2 * num.p + num.d * unit) \div (2 * num.d * unit))
  ELSE num.k

formatBigNumber(num) ==
  IF Below(num, 1000) THEN toFixed0(num, 1)
  ELSE IF Below(num, 1000000) THEN toFixed0(num, 1000) \o "K"
  ELSE IF Below(num, 1000000000) THEN toFixed0(num, 1000000) \o "M"
  ELSE toFixed0(num, 1000000000) \o "B"

\* The last cell of a row: the ratio text or the integer points.
pointsCell(team, gw, sw, bw, div) ==
  IF div THEN formatBigNumber(ratio(team, gw, sw, bw))
  ELSE DecimalString(weightedTotal(team, gw, sw, bw))

\* sorted.map((team, i) => <div key={team.n_NOCID}> ... )
renderRows(sorted, gw, sw, bw, div) ==
  [i \in 1..Len(sorted) |->
     [key |-> sorted[i].n_NOCID, rank |-> i,
      text |-> pointsCell(sorted[i], gw, sw, bw, div)]]

(* ------------------------------------------------------------------ *)
(* The configuration and the query parameters.                        *)
(* ------------------------------------------------------------------ *)

ParamNames == {"gold", "silver", "bronze", "population"}

\* url.searchParams.set(name, value)
ParamSet(params, name, value) ==
  [n \in DOMAIN params \cup {name} |-> IF n = name THEN value ELSE params[n]]

\* url.searchParams.delete(name)
ParamDelete(params, name) == [n \in DOMAIN params \ {name} |-> params[n]]

\* url.searchParams.get(name) ?? fallback
ParamGetOr(params, name, fallback) ==
  IF name \in DOMAIN params THEN params[name] ELSE fallback

\* The visible task comparing the gold weight with the silver default.
encodeWrongDefault(params, gw, sw, bw, div) ==
  LET p1 == IF gw = defaultSilverWeight
            THEN ParamDelete(params, "gold") ELSE ParamSet(params, "gold", gw)
      p2 == IF sw = defaultSilverWeight
            THEN ParamDelete(p1, "silver") ELSE ParamSet(p1, "silver", sw)
      p3 == IF bw = defaultBronzeWeight
            THEN ParamDelete(p2, "bronze") ELSE ParamSet(p2, "bronze", bw)
  IN  IF div THEN ParamSet(p3, "population", "true")
      ELSE ParamDelete(p3, "population")

\* The body of the visible task: the parameters it leaves in the address bar.
encode(params, gw, sw, bw, div) ==
  LET p1 == IF gw = defaultGoldWeight
            THEN ParamDelete(params, "gold") ELSE ParamSet(params, "gold", gw)
      p2 == IF sw = defaultSilverWeight
            THEN ParamDelete(p1, "silver") ELSE ParamSet(p1, "silver", sw)
      p3 == IF bw = defaultBronzeWeight
            THEN ParamDelete(p2, "bronze") ELSE ParamSet(p2, "bronze", bw)
  IN  IF div THEN ParamSet(p3, "population", "true")
      ELSE ParamDelete(p3, "population")

\* The hydration with the bronze default as the fallback of silver.
decodeWrongFallback(params) ==
  [gold |-> ParamGetOr(params, "gold", defaultGoldWeight),
   silver |-> ParamGetOr(params, "silver", defaultBronzeWeight),
   bronze |-> ParamGetOr(params, "bronze", defaultBronzeWeight),
   population |-> "population" \in DOMAIN params]

\* The initial values of the four signals, read from the address bar.
decode(params) ==
  [gold |-> ParamGetOr(params, "gold", defaultGoldWeight),
   silver |-> ParamGetOr(params, "silver", defaultSilverWeight),
   bronze |-> ParamGetOr(params, "bronze", defaultBronzeWeight),
   population |-> "population" \in DOMAIN params]

\* The query strings a session can start from.
InitialParams ==
  { p \in UNION { [D -> HydrateStrings \cup {"true"}] : D \in SUBSET ParamNames } :
      /\ \A n \in DOMAIN p \ {"population"} : p[n] \in HydrateStrings
      /\ "population" \in DOMAIN p => p["population"] = "true" }

(* ------------------------------------------------------------------ *)
(* The state machine.                                                 *)
(* ------------------------------------------------------------------ *)

VARIABLES
  goldWeight,          \* signal: the gold slider's value, a string
  silverWeight,        \* signal
  bronzeWeight,        \* signal
  divideByPopulation,  \* signal: the checkbox
  searchParams,        \* the query parameters of the address bar
  feed,                \* MedalTableNOC as the upstream feed sent it
  MedalTableNOC,       \* medals.value.MedalTableNOC, the loader's array
  rows                 \* the rendered table rows

vars == <<goldWeight, silverWeight, bronzeWeight, divideByPopulation,
          searchParams, feed, MedalTableNOC, rows>>

\* One run of the component with the signals at (gw, sw, bw, div): the render
\* sorts the loader's array in place and maps it to rows, and the visible
\* task writes the configuration to the address bar.
Run(gw, sw, bw, div, array, params) ==
  /\ goldWeight' = gw
  /\ silverWeight' = sw
  /\ bronzeWeight' = bw
  /\ divideByPopulation' = div
  /\ \E sorted \in sort(array, gw, sw, bw, div) :
       /\ MedalTableNOC' = sorted
       /\ rows' = renderRows(sorted, gw, sw, bw, div)
  /\ searchParams' = encode(params, gw, sw, bw, div)

\* A page load: the loader fetches the feed, the signals are read from the
\* address bar, the component renders and the visible task runs.
Init ==
  \E f \in Feeds, params \in InitialParams :
    LET c == decode(params)
    IN  /\ feed = f
        /\ goldWeight = c.gold
        /\ silverWeight = c.silver
        /\ bronzeWeight = c.bronze
        /\ divideByPopulation = c.population
        /\ \E sorted \in sort(f, c.gold, c.silver, c.bronze, c.population) :
             /\ MedalTableNOC = sorted
             /\ rows = renderRows(sorted, c.gold, c.silver, c.bronze, c.population)
        /\ searchParams = encode(params, c.gold, c.silver, c.bronze, c.population)

\* The user moves the gold slider.
InputGold ==
  \E v \in SliderValues :
    /\ v # goldWeight
    /\ Run(v, silverWeight, bronzeWeight, divideByPopulation, MedalTableNOC, searchParams)
    /\ UNCHANGED feed

\* The user moves the silver slider.
InputSilver ==
  \E v \in SliderValues :
    /\ v # silverWeight
    /\ Run(goldWeight, v, bronzeWeight, divideByPopulation, MedalTableNOC, searchParams)
    /\ UNCHANGED feed

\* The user moves the bronze slider.
InputBronze ==
  \E v \in SliderValues :
    /\ v # bronzeWeight
    /\ Run(goldWeight, silverWeight, v, divideByPopulation, MedalTableNOC, searchParams)
    /\ UNCHANGED feed

\* The user flips the "Divide by population" checkbox.
ToggleDivideByPopulation ==
  /\ Run(goldWeight, silverWeight, bronzeWeight, ~divideByPopulation,
         MedalTableNOC, searchParams)
  /\ UNCHANGED feed

\* The address of the page is opened again (a shared link, a reload): a new
\* session on the same feed, its signals read from the query parameters.
OpenLink ==
  LET c == decode(searchParams)
  IN  /\ Run(c.gold, c.silver, c.bronze, c.population, feed, searchParams)
      /\ UNCHANGED feed

Next ==
  \/ InputGold
  \/ InputSilver
  \/ InputBronze
  \/ ToggleDivideByPopulation
  \/ OpenLink

Spec == Init /\ [][Next]_vars

(* ------------------------------------------------------------------ *)
(* What the claims speak of.                                          *)
(* ------------------------------------------------------------------ *)

\* The team a rendered row shows.
TeamOf(row) == CHOOSE t \in Range(feed) : t.n_NOCID = row.key

\* The team at position i of the rendered table.
Shown(i) == TeamOf(rows[i])

\* The score the render's comparator gives a team under the current signals.
Score(team) ==
  getIndex(team, goldWeight, silverWeight, bronzeWeight, divideByPopulation)

\* The integer points of a team under the current signals.
Points(team) == weightedTotal(team, goldWeight, silverWeight, bronzeWeight)

\* The RankingConfig a set of signal values stands for.
ConfigOf(gw, sw, bw, div) ==
  [gold |-> parseInt(gw), silver |-> parseInt(sw), bronze |-> parseInt(bw),
   normalizeByPopulation |-> div]

\* The current RankingConfig.
Config == ConfigOf(goldWeight, silverWeight, bronzeWeight, divideByPopulation)

\* The RankingConfig a session opened on the current address starts with.
Decoded ==
  LET c == decode(searchParams)
  IN  ConfigOf(c.gold, c.silver, c.bronze, c.population)

Positions == 1..Len(rows)

\* x >= y on doubles: false as soon as one side is NaN.
GreaterEq(x, y) == ~isNaN(x) /\ ~isNaN(y) /\ Sign(x, y) >= 0

\* a and b have the same counts but for gold / silver / bronze.
DifferOnlyInGold(a, b) ==
  a.n_Gold # b.n_Gold /\ a.n_Silver = b.n_Silver /\ a.n_Bronze = b.n_Bronze
DifferOnlyInSilver(a, b) ==
  a.n_Gold = b.n_Gold /\ a.n_Silver # b.n_Silver /\ a.n_Bronze = b.n_Bronze
DifferOnlyInBronze(a, b) ==
  a.n_Gold = b.n_Gold /\ a.n_Silver = b.n_Silver /\ a.n_Bronze # b.n_Bronze

\* a and b differ only in the count of one colour, and that colour weighs 0.
DifferOnlyInZeroWeighted(a, b) ==
  \/ Config.gold = 0 /\ DifferOnlyInGold(a, b)
  \/ Config.silver = 0 /\ DifferOnlyInSilver(a, b)
  \/ Config.bronze = 0 /\ DifferOnlyInBronze(a, b)

Medals(t) == t.n_Gold + t.n_Silver + t.n_Bronze

(* ------------------------------------------------------------------ *)
(* C1                                                                 *)
(* ------------------------------------------------------------------ *)

\* C1: round trip of the codec.  The address bar always holds the encoding of
\* the current configuration; decoding it against the defaults gives the
\* current configuration back, weight for weight and flag for flag.
C1_RoundTrip == Decoded = Config

\* A configuration that is not the default one has been encoded: gold 0 and
\* the population flag are in the address bar, silver and bronze are omitted.
C1_Witness ==
  /\ Config = [gold |-> 0, silver |-> 2, bronze |-> 1, normalizeByPopulation |-> TRUE]
  /\ DOMAIN searchParams = {"gold", "population"}
  /\ Decoded = Config

(* ------------------------------------------------------------------ *)
(* C2                                                                 *)
(* ------------------------------------------------------------------ *)

\* C2 as stated: after encoding, gold / silver / bronze is present iff that
\* weight differs from its default 3 / 2 / 1, and population is present iff
\* the flag is set.
C2_EmissionByValue ==
  /\ ("gold" \in DOMAIN searchParams) = (Config.gold # 3)
  /\ ("silver" \in DOMAIN searchParams) = (Config.silver # 2)
  /\ ("bronze" \in DOMAIN searchParams) = (Config.bronze # 1)
  /\ ("population" \in DOMAIN searchParams) = Config.normalizeByPopulation

\* C2 as amended: after encoding, gold / silver / bronze is present iff the
\* weight's text differs from the default's text "3" / "2" / "1" (for a weight
\* a slider has set: iff the weight differs from its default), a present
\* parameter carries the weight's text, and population is present iff the
\* flag is set; the default configuration leaves none of the four.
C2_EmissionByText ==
  /\ ("gold" \in DOMAIN searchParams) = (goldWeight # "3")
  /\ ("silver" \in DOMAIN searchParams) = (silverWeight # "2")
  /\ ("bronze" \in DOMAIN searchParams) = (bronzeWeight # "1")
  /\ ("population" \in DOMAIN searchParams) = divideByPopulation
  /\ "gold" \in DOMAIN searchParams => searchParams["gold"] = goldWeight
  /\ "silver" \in DOMAIN searchParams => searchParams["silver"] = silverWeight
  /\ "bronze" \in DOMAIN searchParams => searchParams["bronze"] = bronzeWeight
  /\ (goldWeight \in SliderValues) =>
       (("gold" \in DOMAIN searchParams) = (Config.gold # 3))
  /\ (silverWeight \in SliderValues) =>
       (("silver" \in DOMAIN searchParams) = (Config.silver # 2))
  /\ (bronzeWeight \in SliderValues) =>
       (("bronze" \in DOMAIN searchParams) = (Config.bronze # 1))

\* The default configuration has been encoded, from an address that spelled
\* it out or from none: the address bar holds none of the four parameters.
C2_Witness ==
  /\ Config = [gold |-> 3, silver |-> 2, bronze |-> 1, normalizeByPopulation |-> FALSE]
  /\ goldWeight \in SliderValues
  /\ DOMAIN searchParams = {}

(* ------------------------------------------------------------------ *)
(* C3                                                                 *)
(* ------------------------------------------------------------------ *)

\* C3: the rendered table is monotonic in score: for positions i < j the
\* score at i is >= the score at j, whatever the configuration and the
\* feed, teams without a population entry included.
C3_Monotonic ==
  \A i \in Positions, j \in Positions :
    i < j => GreaterEq(Score(Shown(i)), Score(Shown(j)))

(* ------------------------------------------------------------------ *)
(* C4                                                                 *)
(* ------------------------------------------------------------------ *)

\* C4 as stated (read in non-normalized mode, where the score has no
\* divisor): two teams that differ only in the count of a colour of weight 0
\* get equal scores.
C4_ZeroWeightEqualScores ==
  ~divideByPopulation =>
    \A i \in Positions, j \in Positions :
      DifferOnlyInZeroWeighted(Shown(i), Shown(j)) =>
        compareFn(Shown(i), Shown(j), goldWeight, silverWeight, bronzeWeight,
                  divideByPopulation) = 0

\* C4 as amended: weight 0 removes a colour from the integer points, not from
\* the score, which keeps the colour's tie-break term.  In non-normalized
\* mode, of two teams that differ only in the count of a colour of weight 0,
\* both show the same points, and the one with more medals of that colour has
\* the strictly higher score and stands earlier in the table.
C4_ZeroWeightTieBreaks ==
  ~divideByPopulation =>
    \A i \in Positions, j \in Positions :
      (DifferOnlyInZeroWeighted(Shown(i), Shown(j))
         /\ Medals(Shown(i)) > Medals(Shown(j))) =>
        /\ rows[i].text = rows[j].text
        /\ Sign(Score(Shown(i)), Score(Shown(j))) = 1
        /\ i < j

\* Gold weighs 0, the feed lists the team with one gold before the team with
\* two, and the table shows them the other way round with equal points.
C4_Witness ==
  /\ ~divideByPopulation
  /\ Config.gold = 0
  /\ Len(feed) = 2 /\ Len(rows) = 2
  /\ feed[1].n_Gold = 1 /\ feed[2].n_Gold = 2
  /\ DifferOnlyInZeroWeighted(feed[1], feed[2])
  /\ rows[1].key = feed[2].n_NOCID /\ rows[2].key = feed[1].n_NOCID
  /\ rows[1].text = "0" /\ rows[2].text = "0"

(* ------------------------------------------------------------------ *)
(* C5                                                                 *)
(* ------------------------------------------------------------------ *)

\* C5: in non-normalized mode with the three weights in 1..10, the table is
\* ordered by integer points first (the tie-break terms never put fewer points
\* before more), then among equal points by gold count, then among equal gold
\* counts by silver count.
C5_TieBreakOrder ==
  (~divideByPopulation /\ Config.gold >= 1 /\ Config.silver >= 1 /\ Config.bronze >= 1) =>
    \A i \in Positions, j \in Positions :
      i < j =>
        LET a == Shown(i)
            b == Shown(j)
        IN  /\ Points(a) >= Points(b)
            /\ Points(a) = Points(b) => a.n_Gold >= b.n_Gold
            /\ (Points(a) = Points(b) /\ a.n_Gold = b.n_Gold) => a.n_Silver >= b.n_Silver

\* Two teams with equal points and equal gold counts were fed with the one
\* with less silver first; the table shows the one with more silver first.
C5_Witness ==
  /\ ~divideByPopulation
  /\ Config.gold >= 1 /\ Config.silver >= 1 /\ Config.bronze >= 1
  /\ Len(feed) = 2 /\ Len(rows) = 2
  /\ Points(feed[1]) = Points(feed[2])
  /\ feed[1].n_Gold = feed[2].n_Gold
  /\ feed[1].n_Silver < feed[2].n_Silver
  /\ rows[1].key = feed[2].n_NOCID /\ rows[2].key = feed[1].n_NOCID

(* ------------------------------------------------------------------ *)
(* C6                                                                 *)
(* ------------------------------------------------------------------ *)

\* C6: with population normalizing on, a team whose short code has no
\* population entry gets neither a NaN or infinite score nor a ratio text
\* formatted from NaN or Infinity.
C6_LookupMissExplicit ==
  divideByPopulation =>
    \A i \in Positions :
      Shown(i).c_NOCShort \notin DOMAIN population =>
        /\ Score(Shown(i)).k = "num"
        /\ rows[i].text \notin {"NaNB", "InfinityB"}

(* ------------------------------------------------------------------ *)
(* C7                                                                 *)
(* ------------------------------------------------------------------ *)

\* C7: with population normalizing on, a team whose weighted total is 0 is
\* never shown a ratio text formatted from Infinity or NaN.
C7_ZeroTotalExplicit ==
  divideByPopulation =>
    \A i \in Positions :
      Points(Shown(i)) = 0 => rows[i].text \notin {"NaNB", "InfinityB"}

(* ------------------------------------------------------------------ *)
(* C8                                                                 *)
(* ------------------------------------------------------------------ *)

\* C8: ranking leaves the loaded country list as the feed delivered it, same
\* elements in the same order.
C8_InputsReadOnly == MedalTableNOC = feed

(* ------------------------------------------------------------------ *)
(* C9                                                                 *)
(* ------------------------------------------------------------------ *)

\* C9: the rendered table is a permutation of the feed's country list: as
\* many rows as the feed has countries, and every country id of the feed in
\* exactly one row.
C9_Permutation ==
  /\ Len(rows) = Len(feed)
  /\ \A k \in 1..Len(feed) :
       Cardinality({i \in Positions : rows[i].key = feed[k].n_NOCID}) = 1

\* A feed of two countries has been ranked into the order opposite to the
\* feed's.
C9_Witness ==
  /\ Len(feed) = 2 /\ Len(rows) = 2
  /\ rows[1].key = feed[2].n_NOCID
  /\ rows[2].key = feed[1].n_NOCID

(* ------------------------------------------------------------------ *)
(* C10                                                                *)
(* ------------------------------------------------------------------ *)

\* C10: whatever the history of configuration changes, the table is in an
\* order that ranking the feed's original country order under the current
\* configuration alone produces.
C10_HistoryIndependent ==
  \E fresh \in sort(feed, goldWeight, silverWeight, bronzeWeight, divideByPopulation) :
    rows = renderRows(fresh, goldWeight, silverWeight, bronzeWeight, divideByPopulation)

====
